---------------------------- MODULE Spec2Model ----------------------------
(***************************************************************************)
(* Model of the time-series core of energy-explorer:                       *)
(*   CapacitySeries.acceleration / CapacitySeries.smooth   (objects.py)    *)
(*   compute_pair_correlation                      (run_correlations.py)   *)
(*   compute_cosine_similarity                     (run_similarity.py)     *)
(*   predict_capacity_series                       (run_similarity.py)     *)
(*   AccelerationPeaks.max / min / frequency       (objects.py)            *)
(*   find_acceleration_peaks                       (es_explorer.py)        *)
(*                                                                         *)
(* Numbers.  Timestamps and durations are whole seconds, as the code makes *)
(* them (datetime64[s], int(delta.total_seconds())).  Capacity values are  *)
(* fixed-point integers; every division the floating-point code performs   *)
(* (interpolation slope, kernel normalisation) is carried out on integers  *)
(* and rounds down to the unit.  Only finite values are modelled, except   *)
(* in predict_capacity_series, whose values carry NaN and the infinities.  *)
(* Sequences are 1-based here and 0-based in the source: source index j is *)
(* position j+1.                                                           *)
(***************************************************************************)
EXTENDS Integers, Sequences, FiniteSets, TLC

VARIABLES
    time,           \* CapacitySeries.time      (series_m in the pair functions)
    capacity,       \* CapacitySeries.capacity  (series_m in the pair functions)
    op,             \* the operation that ran last on the series
    err,            \* "none", or the exception the last operation raised
    args,           \* the arguments of the last smooth call
    pre,            \* time and capacity as they were when the last call started
    acceleration,   \* what the last operation returned, when it was a read of acceleration
    calls,          \* number of smooth calls made so far
    capacity_n,     \* series_n.capacity, the second series of the pair functions
    pc,             \* position of the running pair function: idle, loop, done, raised
    accel_m,        \* compute_pair_correlation: locals of the call
    accel_n,
    m_peak,
    t_width,
    kernel,
    max_shift,
    shift,
    max_corr,
    best_shift,
    similarity,     \* the value compute_cosine_similarity returned
    objects,        \* the heap: CapacitySeries objects, each naming its two arrays
    arrays,         \* the heap: the numpy arrays the objects refer to
    series_m,       \* predict_capacity_series: the donor (an object of the heap)
    series_n,       \* predict_capacity_series: the target (an object of the heap)
    series_p,       \* predict_capacity_series: the predicted series, 0 before the copy
    similarity_coeff, \* predict_capacity_series: the coefficient after clipping, in halves
    midpoint,       \* predict_capacity_series: locals of the call
    t,
    maxima,         \* AccelerationPeaks.maxima
    minima,         \* AccelerationPeaks.minima
    returned,       \* what the last property read of the peaks returned
    es_frame,       \* query_capacity_series: the frame passed in, a sequence of rows
    query_args,     \* query_capacity_series: the other arguments of the call
    selected_frame  \* query_capacity_series: the frame returned

seriesVars == <<time, capacity, op, err, args, pre, acceleration, calls>>

corrVars == <<accel_m, accel_n, m_peak, t_width, kernel, max_shift, shift, max_corr, best_shift>>

predVars == <<objects, arrays, series_m, series_n, series_p, similarity_coeff, midpoint, t>>

peakVars == <<maxima, minima, returned>>

queryVars == <<es_frame, query_args, selected_frame>>

vars == <<seriesVars, capacity_n, pc, corrVars, similarity, predVars, peakVars, queryVars>>

-----------------------------------------------------------------------------
(* Bounds of the model                                                      *)

MaxLen   == 4      \* longest series a caller constructs
MaxEnd   == 9      \* smooth: end is drawn from 0..MaxEnd
MaxDelta == 4      \* smooth: delta is drawn from 1..MaxDelta seconds
MaxSigma == 1      \* smooth: sigma is drawn from 1..MaxSigma seconds
MaxCalls == 1      \* smooth calls per behaviour

InitTimeline == <<1, 3, 4, 9>>   \* the (irregular) timestamps of a constructed series
Starts       == {0}              \* smooth: the grid starts before the first sample
InitValues   == {-200, 600}      \* capacity values a constructed series may carry

-----------------------------------------------------------------------------
(* Builtins and numpy primitives                                            *)

Min(a, b) == IF a < b THEN a ELSE b

Max(a, b) == IF a > b THEN a ELSE b

Abs(a) == IF a < 0 THEN -a ELSE a

\* int(x / y) for y > 0: Python's int() truncates toward zero
TruncDiv(x, y) == IF x >= 0 THEN x \div y ELSE -((-x) \div y)

\* a[lo:hi] with Python's rules: a negative bound counts from the end, and
\* every bound is clipped to the array
PyIndex(i, n) == IF i < 0 THEN Max(i + n, 0) ELSE Min(i, n)

PySlice(a, lo, hi) ==
    LET n  == Len(a)
        l  == PyIndex(lo, n)
        h  == PyIndex(hi, n)
    IN  IF h <= l THEN << >> ELSE SubSeq(a, l + 1, h)

\* a result that is either a value or a raised exception
Ok(v) == [ok |-> TRUE, val |-> v]

Raise == [ok |-> FALSE, val |-> << >>]

RECURSIVE SumSeq(_)
SumSeq(s) == IF Len(s) = 0 THEN 0 ELSE s[1] + SumSeq(Tail(s))

\* numpy.diff(a): first discrete difference, one element shorter (empty stays empty)
Diff(a) == [i \in 1..Max(Len(a) - 1, 0) |-> a[i + 1] - a[i]]

\* a padding with a zero at each end
PadEdge_Zero(a) ==
    IF Len(a) = 0 THEN Raise
    ELSE Ok(<<0>> \o a \o <<0>>)

\* numpy.pad(a, (1, 1), mode="edge"): raises ValueError on an empty array
PadEdge(a) ==
    IF Len(a) = 0 THEN Raise
    ELSE Ok(<<a[1]>> \o a \o <<a[Len(a)]>>)

\* CapacitySeries.acceleration
Acceleration(c) == PadEdge(Diff(Diff(c)))


-----------------------------------------------------------------------------
(* CapacitySeries.smooth                                                    *)

\* numpy.interp(x, xp, fp) at one point x, for increasing xp: flat outside
\* [xp[0], xp[-1]], linear between neighbouring sample points
Interp(x, xp, fp) ==
    LET n == Len(xp)
    IN  IF x <= xp[1] THEN fp[1]
        ELSE IF x >= xp[n] THEN fp[n]
        ELSE LET j == CHOOSE i \in 1..(n - 1) : xp[i] <= x /\ x < xp[i + 1]
             IN  fp[j] + ((x - xp[j]) * (fp[j + 1] - fp[j])) \div (xp[j + 1] - xp[j])

\* 1000 * exp(-0.5 * x^2) at x = 0, 0.5, 1, ..., 3
ExpTable == <<1000, 882, 607, 325, 135, 44, 11>>

\* exp(-0.5 * (k * delta / sigma)^2) in thousandths; |k * delta / sigma| <= 3
\* inside the kernel, and the argument is taken down to the half unit
GaussWeight(k, delta, sigma) == ExpTable[((2 * Abs(k) * delta) \div sigma) + 1]

\* int(3 * sigma.total_seconds() / delta.total_seconds())
KernelRadius(sigma, delta) == TruncDiv(3 * sigma, delta)

\* exp(-0.5 * (arange(-r*delta, (r+1)*delta, delta) / sigma) ** 2), 2r+1 weights
Kernel(r, delta, sigma) == [i \in 1..(2 * r + 1) |-> GaussWeight(i - 1 - r, delta, sigma)]

\* the full discrete convolution of a and v at 0-based position k
ConvolveAt(a, v, k) ==
    SumSeq([j \in 1..Len(a) |->
              IF k - (j - 1) >= 0 /\ k - (j - 1) <= Len(v) - 1
              THEN a[j] * v[k - j + 2] ELSE 0])

\* numpy.convolve(a, v, mode="same"): raises ValueError on an empty operand;
\* the result has the length of the LONGER operand and is the centred part
\* of the full convolution
ConvolveSame(a, v) ==
    IF Len(a) = 0 \/ Len(v) = 0 THEN Raise
    ELSE LET long  == Max(Len(a), Len(v))
             short == Min(Len(a), Len(v))
             off   == short - (short \div 2) - 1
         IN  Ok([i \in 1..long |-> ConvolveAt(a, v, i - 1 + off)])

\* a clamp that lets negative values through
ClampNonNeg_Off(c) == c

\* trimmed_capacity[trimmed_capacity < 0] = 0
ClampNonNeg(c) == [i \in 1..Len(c) |-> IF c[i] < 0 THEN 0 ELSE c[i]]

\* x[kernel_radius:-kernel_radius]
Trim(x, kernel_radius) == PySlice(x, kernel_radius, -kernel_radius)

\* size_, the number of grid points
GridSize(start, end, delta) == TruncDiv(end - start, delta)

\* new_times: range(size_) is empty when size_ <= 0
NewTimes(start, end, delta) ==
    [i \in 1..Max(GridSize(start, end, delta), 0) |-> start + (i - 1) * delta]

\* The new (time, capacity) pair smooth computes from series s, or the exception:
\* numpy.interp raises on empty or mismatched sample points, numpy.convolve on
\* an empty grid
Smoothed(s, start, end, delta, sigma) ==
    LET new_times     == NewTimes(start, end, delta)
        kernel_radius == KernelRadius(sigma, delta)
        kern          == Kernel(kernel_radius, delta, sigma)
    IN  IF Len(s.time) = 0 \/ Len(s.time) # Len(s.capacity) THEN Raise
        ELSE LET interpolated_capacity ==
                     [i \in 1..Len(new_times) |-> Interp(new_times[i], s.time, s.capacity)]
                 conv == ConvolveSame(interpolated_capacity, kern)
             IN  IF ~conv.ok THEN Raise
                 ELSE LET smoothed_capacity ==
                              [i \in 1..Len(conv.val) |-> conv.val[i] \div SumSeq(kern)]
                      IN  Ok([time     |-> Trim(new_times, kernel_radius),
                              capacity |-> ClampNonNeg(Trim(smoothed_capacity, kernel_radius))])

Series == [time |-> time, capacity |-> capacity]

NoArgs == [start |-> 0, end |-> 0, delta |-> 1, sigma |-> 1]

\* a smooth that stores the new grid before it computes the capacity
Smooth_TimeFirst(start, end, delta, sigma) ==
    /\ calls < MaxCalls
    /\ LET r == Smoothed(Series, start, end, delta, sigma)
       IN  IF r.ok
           THEN /\ time' = r.val.time
                /\ capacity' = r.val.capacity
                /\ err' = "none"
           ELSE /\ time' = NewTimes(start, end, delta)
                /\ UNCHANGED capacity
                /\ err' = "ValueError"
    /\ op' = "smooth"
    /\ args' = [start |-> start, end |-> end, delta |-> delta, sigma |-> sigma]
    /\ pre' = Series
    /\ calls' = calls + 1
    /\ acceleration' = << >>
    /\ UNCHANGED <<capacity_n, pc, corrVars, similarity, predVars, peakVars, queryVars>>

\* series.smooth(start, end, delta, sigma)
Smooth(start, end, delta, sigma) ==
    /\ calls < MaxCalls
    /\ LET r == Smoothed(Series, start, end, delta, sigma)
       IN  IF r.ok
           THEN /\ time' = r.val.time
                /\ capacity' = r.val.capacity
                /\ err' = "none"
           ELSE /\ UNCHANGED <<time, capacity>>
                /\ err' = "ValueError"
    /\ op' = "smooth"
    /\ args' = [start |-> start, end |-> end, delta |-> delta, sigma |-> sigma]
    /\ pre' = Series
    /\ calls' = calls + 1
    /\ acceleration' = << >>
    /\ UNCHANGED <<capacity_n, pc, corrVars, similarity, predVars, peakVars, queryVars>>

\* a read that returns the acceleration of the capacity the last call started from
ReadAcceleration_Cached ==
    /\ LET r == Acceleration(pre.capacity)
       IN  /\ acceleration' = r.val
           /\ err' = IF r.ok THEN "none" ELSE "ValueError"
    /\ op' = "acceleration"
    /\ pre' = Series
    /\ UNCHANGED <<time, capacity, args, calls, capacity_n, pc, corrVars, similarity,
                   predVars, peakVars, queryVars>>

\* a read of series.acceleration
ReadAcceleration ==
    /\ LET r == Acceleration(capacity)
       IN  /\ acceleration' = r.val
           /\ err' = IF r.ok THEN "none" ELSE "ValueError"
    /\ op' = "acceleration"
    /\ pre' = Series
    /\ UNCHANGED <<time, capacity, args, calls, capacity_n, pc, corrVars, similarity,
                   predVars, peakVars, queryVars>>

\* score and similarity values: finite, or float("-inf")
Fin(v) == [fin |-> TRUE, v |-> v]

NegInf == [fin |-> FALSE, v |-> 0]

\* no pair function has been called
PairIdle ==
    /\ pc = "idle"
    /\ accel_m = << >>
    /\ accel_n = << >>
    /\ m_peak = 0
    /\ t_width = 0
    /\ kernel = << >>
    /\ max_shift = 0
    /\ shift = 0
    /\ max_corr = NegInf
    /\ best_shift = 0
    /\ similarity = [num |-> 0, den |-> 1]

\* predict_capacity_series has not been called and no object is on the heap
PredIdle ==
    /\ objects = << >>
    /\ arrays = << >>
    /\ series_m = 0
    /\ series_n = 0
    /\ series_p = 0
    /\ similarity_coeff = 0
    /\ midpoint = 0
    /\ t = 0

\* numpy.array([]): one dimension, no element
EmptyArray == [ndim |-> 1, cols |-> 0, rows |-> << >>]

\* nothing has been read from an AccelerationPeaks
NoReturn == [kind |-> "none", a |-> 0, b |-> 0]

\* no AccelerationPeaks exists
PeaksIdle ==
    /\ maxima = EmptyArray
    /\ minima = EmptyArray
    /\ returned = NoReturn

\* n_groups=None
NoGroups == [some |-> FALSE, n |-> 0]

\* query_capacity_series has not been called and no frame exists
QueryIdle ==
    /\ es_frame = << >>
    /\ query_args = [exclusive |-> TRUE, n_groups |-> NoGroups, select_from |-> "highest"]
    /\ selected_frame = << >>

\* the state of a series right after construction
Constructed ==
    /\ op = "init"
    /\ err = "none"
    /\ args = NoArgs
    /\ pre = Series
    /\ acceleration = << >>
    /\ calls = 0

\* CapacitySeries(time, capacity): a freshly constructed series, sorted by
\* timestamp and deduplicated by its caller
Init ==
    /\ \E n \in 0..Min(MaxLen, Len(InitTimeline)) :
          /\ time = SubSeq(InitTimeline, 1, n)
          /\ capacity \in [1..n -> InitValues]
    /\ Constructed
    /\ capacity_n = << >>
    /\ PairIdle
    /\ QueryIdle
    /\ PredIdle
    /\ PeaksIdle

SmoothCall ==
    \E start \in Starts, end \in 0..MaxEnd, delta \in 1..MaxDelta, sigma \in 1..MaxSigma :
        Smooth(start, end, delta, sigma)

Next == SmoothCall \/ ReadAcceleration

Spec == Init /\ [][Next]_vars

-----------------------------------------------------------------------------
(* Claims about CapacitySeries                                              *)

StrictlyIncreasing(ts) == \A i \in 1..(Len(ts) - 1) : ts[i] < ts[i + 1]

\* the claims' N = floor((end - start) / delta) and r of the last smooth call
ArgN == (args.end - args.start) \div args.delta

ArgR == KernelRadius(args.sigma, args.delta)

SmoothReturned == op = "smooth" /\ err = "none"

\* C1: after any sequence of smooth calls that return, len(time) == len(capacity)
\* and time is strictly increasing.
C1_Aligned == Len(time) = Len(capacity) /\ StrictlyIncreasing(time)

\* C2: a smooth call with N > 2r, r >= 0, leaves exactly N - 2r timestamps,
\* consecutive ones delta apart, and N - 2r capacity values.
C2_TrimmedLength ==
    (SmoothReturned /\ ArgR >= 0 /\ ArgN > 2 * ArgR) =>
        /\ Len(time) = ArgN - 2 * ArgR
        /\ \A i \in 1..(Len(time) - 1) : time[i + 1] - time[i] = args.delta
        /\ Len(capacity) = ArgN - 2 * ArgR

\* C3: a smooth call on a degenerate grid (N <= 0, or 0 < N <= 2r) returns
\* without raising and leaves time and capacity empty.
C3_DegenerateEmpty ==
    (op = "smooth" /\ Len(pre.time) > 0 /\ ArgN <= 2 * ArgR) =>
        (err = "none" /\ time = << >> /\ capacity = << >>)

C5_AccelerationLength ==
    op = "acceleration" => (err = "none" /\ Len(acceleration) = Len(capacity))


-----------------------------------------------------------------------------
(* compute_pair_correlation                                                 *)

MaxCorrLen   == 5      \* longest series of a correlated pair
MaxShift     == 2      \* max_shift is drawn from 0..MaxShift
MaxCorrDelta == 4      \* t_delta is drawn from 1..MaxCorrDelta seconds
MaxCorrSigma == 1      \* t_sigma is drawn from 1..MaxCorrSigma seconds

CorrValues == {0, 1}   \* capacity values of a correlated pair

\* the series of n samples on a unit grid with capacities from V
SeriesPool(lo, hi, V) == UNION {[1..n -> V] : n \in lo..hi}

\* a comparison that takes the smaller score
Greater_Flipped(a, b) == a.fin /\ (~b.fin \/ a.v < b.v)

\* a comparison that also replaces an equal score
Greater_OrEqual(a, b) == a.fin /\ (~b.fin \/ a.v >= b.v)

\* a > b on scores: -inf is below every finite value and not above itself
Greater(a, b) == a.fin /\ (~b.fin \/ a.v > b.v)

\* numpy argmax: the 0-based index of the first occurrence of the maximum
ArgMax(a) ==
    (CHOOSE i \in 1..Len(a) :
        /\ \A j \in 1..Len(a) : a[j] <= a[i]
        /\ \A j \in 1..(i - 1) : a[j] < a[i]) - 1

\* (kernel * segment).sum()
Dot(a, b) == SumSeq([i \in 1..Len(a) |-> a[i] * b[i]])

\* a bounds test that lets the window end at the end of the array
OutOfBounds_Loose(shifted_center, width, n) ==
    shifted_center - width < 0 \/ shifted_center + width > n

\* a bounds test of the left end only
OutOfBounds_LeftOnly(shifted_center, width, n) == shifted_center - width < 0

\* shifted_center - t_width < 0 or shifted_center + t_width >= len(accel_n)
OutOfBounds(shifted_center, width, n) ==
    shifted_center - width < 0 \/ shifted_center + width >= n

\* a segment taken one sample too late
Segment_Late(a, shifted_center, width) ==
    PySlice(a, shifted_center - width + 1, shifted_center + width + 1)

\* accel_n[segment_start:segment_end]
Segment(a, shifted_center, width) ==
    PySlice(a, shifted_center - width, shifted_center + width)

\* entry of compute_pair_correlation up to the first loop test; reading either
\* acceleration may raise
CorrCall(ms, t_sigma, t_delta) ==
    /\ pc = "idle"
    /\ LET am == Acceleration(capacity)
           an == Acceleration(capacity_n)
       IN  IF ~am.ok \/ ~an.ok
           THEN /\ pc' = "raised"
                /\ err' = "ValueError"
                /\ UNCHANGED corrVars
           ELSE LET p == ArgMax(am.val)
                    w == TruncDiv(3 * t_sigma, t_delta)
                    start_index == Max(0, p - w)
                    end_index   == Min(Len(am.val), p + w)
                IN  /\ accel_m' = am.val
                    /\ accel_n' = an.val
                    /\ m_peak' = p
                    /\ t_width' = w
                    /\ kernel' = PySlice(am.val, start_index, end_index)
                    /\ max_shift' = ms
                    /\ shift' = -ms
                    /\ max_corr' = NegInf
                    /\ best_shift' = 0
                    /\ pc' = "loop"
                    /\ err' = "none"
    /\ op' = "compute_pair_correlation"
    /\ UNCHANGED <<time, capacity, args, pre, acceleration, calls, capacity_n, similarity,
                   predVars, peakVars, queryVars>>

\* one iteration of "for shift in range(-max_shift, max_shift + 1)"
CorrStep ==
    /\ pc = "loop"
    /\ shift <= max_shift
    /\ LET shifted_center == m_peak + shift
           segment_accel_n == Segment(accel_n, shifted_center, t_width)
           correlation_value == Fin(Dot(kernel, segment_accel_n))
       IN  IF OutOfBounds(shifted_center, t_width, Len(accel_n))
           THEN UNCHANGED <<max_corr, best_shift>>
           ELSE IF Len(segment_accel_n) = Len(kernel) /\ Greater(correlation_value, max_corr)
                THEN /\ max_corr' = correlation_value
                     /\ best_shift' = shift
                ELSE UNCHANGED <<max_corr, best_shift>>
    /\ shift' = shift + 1
    /\ UNCHANGED <<seriesVars, capacity_n, pc, accel_m, accel_n, m_peak, t_width,
                   kernel, max_shift, similarity, predVars, peakVars, queryVars>>

\* the loop is exhausted: return max_corr, best_shift
CorrReturn ==
    /\ pc = "loop"
    /\ shift > max_shift
    /\ pc' = "done"
    /\ UNCHANGED <<seriesVars, capacity_n, corrVars, similarity, predVars, peakVars, queryVars>>

\* a pair of constructed series handed to compute_pair_correlation
InitCorr ==
    /\ capacity \in SeriesPool(2, MaxCorrLen, CorrValues)
    /\ capacity_n \in SeriesPool(2, MaxCorrLen, CorrValues)
    /\ time = [i \in 1..Len(capacity) |-> i - 1]
    /\ Constructed
    /\ PairIdle
    /\ QueryIdle
    /\ PredIdle
    /\ PeaksIdle

CorrCallAny ==
    \E ms \in 0..MaxShift, t_sigma \in 1..MaxCorrSigma, t_delta \in 1..MaxCorrDelta :
        CorrCall(ms, t_sigma, t_delta)

NextCorr == CorrCallAny \/ CorrStep \/ CorrReturn

SpecCorr == InitCorr /\ [][NextCorr]_vars


-----------------------------------------------------------------------------
(* Claims about compute_pair_correlation                                    *)

Shifts == (-max_shift)..max_shift

\* the claims' validity test of a shift: center - w >= 0 and center + w < len
InRange(s) == m_peak + s - t_width >= 0 /\ m_peak + s + t_width < Len(accel_n)

\* the reference window [p-w, p+w) lies inside the reference acceleration
KernelWhole == m_peak - t_width >= 0 /\ m_peak + t_width <= Len(accel_m)

\* sum over j in [0, 2w) of reference.acceleration[p-w+j] * candidate.acceleration[p+s-w+j]
WindowDot(s) ==
    SumSeq([j \in 1..(2 * t_width) |->
              accel_m[m_peak - t_width + j] * accel_n[m_peak + s - t_width + j]])

\* the shifts that receive a score, and those among them with the greatest score
Scored == {s \in Shifts : InRange(s) /\ KernelWhole}

Best == {s \in Scored : \A u \in Scored : WindowDot(s) >= WindowDot(u)}

CorrDone == pc = "done"

\* C6 (as stated): correlating a series with itself returns best_shift = 0 for
\* every max_shift >= 0.
C6_SelfShiftZero == (CorrDone /\ capacity_n = capacity) => best_shift = 0

\* C6 (amended): correlating a series with itself returns best_shift = 0 when
\* max_shift = 0 or no shift is scored, and otherwise a score that is at least
\* the kernel's inner product with itself whenever the zero shift is scored.
C6_SelfScore ==
    (CorrDone /\ capacity_n = capacity) =>
        /\ (max_shift = 0 \/ Scored = {}) => best_shift = 0
        /\ 0 \in Scored => (max_corr.fin /\ max_corr.v >= WindowDot(0))

\* C6 witness: a self-correlation over several shifts that scored the zero
\* shift on a non-empty window and returned another shift.
C6_Witness ==
    /\ CorrDone
    /\ capacity_n = capacity
    /\ t_width >= 1
    /\ 0 \in Scored
    /\ best_shift # 0

\* C7 (as stated): with max_shift = 0 the score is the zero-shift dot product
\* of the window (read here only where the window lies inside both arrays).
C7_ZeroShiftScore ==
    (CorrDone /\ max_shift = 0 /\ KernelWhole /\ m_peak + t_width <= Len(accel_n)) =>
        max_corr = Fin(WindowDot(0))

\* C7 (amended): with max_shift = 0 the score is the zero-shift dot product of
\* the window when p - w >= 0, p + w <= len(reference.acceleration) and
\* p + w < len(candidate.acceleration), and -infinity otherwise.
C7_ZeroShiftScoreInRange ==
    (CorrDone /\ max_shift = 0) =>
        IF KernelWhole /\ m_peak + t_width < Len(accel_n)
        THEN max_corr = Fin(WindowDot(0))
        ELSE max_corr = NegInf

\* C7 witness: a max_shift = 0 call that returned a non-zero finite score.
C7_Witness ==
    /\ CorrDone
    /\ max_shift = 0
    /\ t_width >= 1
    /\ max_corr.fin
    /\ max_corr.v # 0

\* C8 (as stated): among tied best shifts the one returned is the first in
\* ascending order, which is the smallest in magnitude, then the most negative.
C8_TieSmallestMagnitude ==
    (CorrDone /\ Cardinality(Best) >= 2) =>
        /\ best_shift \in Best
        /\ \A u \in Best : best_shift <= u
        /\ \A u \in Best :
              \/ Abs(best_shift) < Abs(u)
              \/ (Abs(best_shift) = Abs(u) /\ best_shift <= u)

\* C8 (amended): among tied best shifts the one returned is the first in
\* ascending order, that is the least (most negative) of them.
C8_TieFirstAscending ==
    (CorrDone /\ Cardinality(Best) >= 2) =>
        /\ best_shift \in Best
        /\ \A u \in Best : best_shift <= u

\* C8 witness: tied best shifts on a non-empty window, one of them closer to
\* zero than the shift returned.
C8_Witness ==
    /\ CorrDone
    /\ t_width >= 1
    /\ Cardinality(Best) >= 2
    /\ \E u \in Best : Abs(u) < Abs(best_shift)

\* C9: a shift with center - w < 0 or center + w >= len(candidate.acceleration)
\* is passed over without scoring and without raising, and a call in which no
\* shift is valid returns (-infinity, 0).
C9_SkipOutOfRange ==
    /\ [][(pc = "loop" /\ shift <= max_shift /\ ~InRange(shift)) =>
            (max_corr' = max_corr /\ best_shift' = best_shift /\ pc' = "loop")]_vars
    /\ []((CorrDone /\ \A s \in Shifts : ~InRange(s)) =>
            (max_corr = NegInf /\ best_shift = 0))

\* C9 witness: a finished call that passed over an out-of-range shift and
\* scored another.
C9_Witness ==
    /\ CorrDone
    /\ t_width >= 1
    /\ max_corr.fin
    /\ \E s \in Shifts : ~InRange(s)


-----------------------------------------------------------------------------
(* compute_cosine_similarity                                                *)
(* Capacity values of this part are in thousandths of a unit, so products   *)
(* of two accelerations are in millionths; the returned quotient is kept as *)
(* the exact fraction num / den, both in units of 1e-9.                     *)

MaxSimLen == 4             \* longest series of a compared pair

SimValues == {0, 10, 20}   \* capacity values of a compared pair (0, 0.01, 0.02)

\* an offset of 1e-6, a thousand times larger
Epsilon_Large == 10 * 10 * 10

\* the 1e-9 added to the denominator, in units of 1e-9
Epsilon == 1

RECURSIVE ISqrtIter(_, _)
ISqrtIter(n, x) ==
    LET y == (x + n \div x) \div 2
    IN  IF y >= x THEN x ELSE ISqrtIter(n, y)

\* the integer square root
ISqrt(n) == IF n = 0 THEN 0 ELSE ISqrtIter(n, n)

\* numpy.linalg.norm(a) * numpy.linalg.norm(b), in millionths
NormProduct(a, b) == ISqrt(Dot(a, a) * Dot(b, b))

\* the value compute_cosine_similarity returns, or the exception raised by
\* reading an acceleration
CosineSimilarity(cm, cn) ==
    LET am == Acceleration(cm)
        an == Acceleration(cn)
    IN  IF ~am.ok \/ ~an.ok THEN Raise
        ELSE LET min_len == Min(Len(am.val), Len(an.val))
                 a == PySlice(am.val, 0, min_len)
                 b == PySlice(an.val, 0, min_len)
             IN  Ok([num |-> 1000 * Dot(a, b),
                     den |-> 1000 * NormProduct(a, b) + Epsilon])

\* compute_cosine_similarity(series_m, series_n)
ComputeCosineSimilarity ==
    /\ pc = "idle"
    /\ LET r == CosineSimilarity(capacity, capacity_n)
       IN  IF r.ok
           THEN /\ similarity' = r.val
                /\ pc' = "done"
                /\ err' = "none"
           ELSE /\ UNCHANGED similarity
                /\ pc' = "raised"
                /\ err' = "ValueError"
    /\ op' = "compute_cosine_similarity"
    /\ UNCHANGED <<time, capacity, args, pre, acceleration, calls, capacity_n, corrVars,
                   predVars, peakVars, queryVars>>

\* a pair of constructed series handed to compute_cosine_similarity
InitSim ==
    /\ capacity \in SeriesPool(2, MaxSimLen, SimValues)
    /\ capacity_n \in SeriesPool(2, MaxSimLen, SimValues)
    /\ time = [i \in 1..Len(capacity) |-> i - 1]
    /\ Constructed
    /\ PairIdle
    /\ QueryIdle
    /\ PredIdle
    /\ PeaksIdle

NextSim == ComputeCosineSimilarity

SpecSim == InitSim /\ [][NextSim]_vars

-----------------------------------------------------------------------------
(* Claims about compute_cosine_similarity                                   *)

\* |num / den - 1| <= 1e-6
WithinMillionthOfOne(q) == Abs(q.num - q.den) <= q.den \div 1000000

\* the squared norm of a's acceleration, in millionths
SelfSquaredNorm == Dot(Acceleration(capacity).val, Acceleration(capacity).val)

SelfSimDone == op = "compute_cosine_similarity" /\ pc = "done" /\ capacity_n = capacity

C11_NeverRaises ==
    op = "compute_cosine_similarity" => (pc = "done" /\ err = "none")


-----------------------------------------------------------------------------
(* predict_capacity_series                                                  *)
(*                                                                          *)
(* The series are objects of a heap, so that the donor and the target may   *)
(* be one object and the copy may or may not share arrays with them.       *)
(* Capacities are floats with their non-finite values: a finite value is    *)
(* an integer count of units of 1e8, the coefficient an integer count of    *)
(* halves.  Donor values are even, so that 2.0 * dc_m * coeff**2 is a whole *)
(* number of units.                                                         *)

MaxPredLen == 3                 \* longest donor or target

ClipBound  == 10                \* 1e9, in units of 1e8
CoeffBound == 2                 \* 1.0, in halves

Num(v) == [k |-> "fin", v |-> v]

NaN == [k |-> "nan", v |-> 0]

\* float("inf") for s = 1, float("-inf") for s = -1
Inf(s) == [k |-> "inf", v |-> s]

PredDonorValues  == {Num(0), Num(8), Inf(1)}
PredTargetValues == {Num(6), Num(14)}
PredCoeffs       == {Num(-3), Num(0), Num(1), NaN}

IsNan(a) == a.k = "nan"

IsInf(a) == a.k = "inf"

\* a - b in IEEE arithmetic
FSub(a, b) ==
    IF IsNan(a) \/ IsNan(b) THEN NaN
    ELSE IF IsInf(a) /\ IsInf(b) THEN (IF a.v = b.v THEN NaN ELSE a)
    ELSE IF IsInf(a) THEN a
    ELSE IF IsInf(b) THEN Inf(-b.v)
    ELSE Num(a.v - b.v)

\* a + b in IEEE arithmetic
FAdd(a, b) ==
    IF IsNan(a) \/ IsNan(b) THEN NaN
    ELSE IF IsInf(a) /\ IsInf(b) THEN (IF a.v = b.v THEN a ELSE NaN)
    ELSE IF IsInf(a) THEN a
    ELSE IF IsInf(b) THEN b
    ELSE Num(a.v + b.v)

\* a scaling that ignores the coefficient
Scaled_Unit(dc_m, c) ==
    IF IsNan(dc_m) THEN NaN
    ELSE IF IsInf(dc_m) THEN dc_m
    ELSE Num(2 * dc_m.v)

\* 2.0 * dc_m * c**2, for a coefficient c already clipped (finite or NaN)
Scaled(dc_m, c) ==
    IF IsNan(dc_m) \/ IsNan(c) THEN NaN
    ELSE IF IsInf(dc_m) THEN (IF c.v = 0 THEN NaN ELSE dc_m)
    ELSE Num((dc_m.v * c.v * c.v) \div 2)

\* numpy.clip that lets every value through
Clip_Off(a, lo, hi) == a

\* numpy.clip(a, lo, hi): NaN stays NaN, an infinity becomes the bound
Clip(a, lo, hi) ==
    IF IsNan(a) THEN NaN
    ELSE IF IsInf(a) THEN (IF a.v > 0 THEN Num(hi) ELSE Num(lo))
    ELSE Num(Max(lo, Min(hi, a.v)))

\* a[i] of a numpy array of n elements: whether i is in bounds, and the position read
ValidIndex(i, n) == -n <= i /\ i < n

ElemPos(i, n) == IF i < 0 THEN i + n + 1 ELSE i + 1

\* the timestamps of a series of n samples on a unit grid
GridTimes(n) == [i \in 1..n |-> i - 1]

\* a copy that is a new object over the very arrays of the original
ShallowCopy(objs, arrs, id) ==
    [objects |-> Append(objs, objs[id]), arrays |-> arrs, id |-> Len(objs) + 1]

\* copy.deepcopy(series): a new object over new arrays with the same contents
DeepCopy(objs, arrs, id) ==
    [objects |-> Append(objs, [time |-> Len(arrs) + 1, capacity |-> Len(arrs) + 2]),
     arrays  |-> arrs \o <<arrs[objs[id].time], arrs[objs[id].capacity]>>,
     id      |-> Len(objs) + 1]

\* predict_capacity_series(series_m, series_n, coeff), up to the loop
PredCall(coeff) ==
    /\ pc = "idle"
    /\ LET copy   == DeepCopy(objects, arrays, series_n)
           cap_id == copy.objects[copy.id].capacity
           n      == Len(copy.arrays[cap_id])
           mid    == n \div 2
       IN  /\ objects' = copy.objects
           /\ series_p' = copy.id
           /\ midpoint' = mid
           /\ arrays' = [copy.arrays EXCEPT
                            ![cap_id] = [i \in 1..n |-> IF i > mid THEN Num(0) ELSE @[i]]]
           /\ t' = mid - 1
    /\ similarity_coeff' = Clip(coeff, -CoeffBound, CoeffBound)
    /\ pc' = "loop"
    /\ op' = "predict_capacity_series"
    /\ err' = "none"
    /\ UNCHANGED <<time, capacity, args, pre, acceleration, calls, capacity_n, corrVars,
                   similarity, series_m, series_n, peakVars, queryVars>>

\* one iteration of the loop over t
PredStep ==
    /\ pc = "loop"
    /\ LET m_cap == arrays[objects[series_m].capacity]
           p_id  == objects[series_p].capacity
           p_cap == arrays[p_id]
           n_m   == Len(m_cap)
           n_p   == Len(p_cap)
       IN  /\ t < n_p - 1
           /\ IF ~ValidIndex(t + 1, n_m) \/ ~ValidIndex(t, n_m)
              THEN /\ pc' = "raised"
                   /\ err' = "IndexError"
                   /\ UNCHANGED <<arrays, t>>
              ELSE LET dc_m == FSub(m_cap[ElemPos(t + 1, n_m)], m_cap[ElemPos(t, n_m)])
                       dc_p == Scaled(dc_m, similarity_coeff)
                       predicted_capacity == FAdd(p_cap[ElemPos(t, n_p)], dc_p)
                       finite == IF IsNan(predicted_capacity) \/ IsInf(predicted_capacity)
                                 THEN Num(0)
                                 ELSE predicted_capacity
                   IN  /\ arrays' = [arrays EXCEPT
                                        ![p_id][ElemPos(t + 1, n_p)] =
                                            Clip(finite, -ClipBound, ClipBound)]
                       /\ t' = t + 1
                       /\ UNCHANGED <<pc, err>>
    /\ UNCHANGED <<time, capacity, op, args, pre, acceleration, calls, capacity_n, corrVars,
                   similarity, objects, series_m, series_n, series_p, similarity_coeff,
                   midpoint, peakVars, queryVars>>

\* a return that also leaves the loop once the donor has no sample left
PredReturn_Early ==
    /\ pc = "loop"
    /\ \/ t >= Len(arrays[objects[series_p].capacity]) - 1
       \/ ~ValidIndex(t + 1, Len(arrays[objects[series_m].capacity]))
    /\ pc' = "done"
    /\ UNCHANGED <<seriesVars, capacity_n, corrVars, similarity, predVars, peakVars, queryVars>>

\* the loop is exhausted: return series_p
PredReturn ==
    /\ pc = "loop"
    /\ t >= Len(arrays[objects[series_p].capacity]) - 1
    /\ pc' = "done"
    /\ UNCHANGED <<seriesVars, capacity_n, corrVars, similarity, predVars, peakVars, queryVars>>

\* the caller writes into an array of the series it got back
WriteResult(field, i) ==
    /\ pc = "done"
    /\ op = "predict_capacity_series"
    /\ LET id == objects[series_p][field]
       IN  /\ i \in 1..Len(arrays[id])
           /\ arrays' = [arrays EXCEPT
                            ![id][i] = IF field = "time" THEN -1 ELSE Num(-1)]
    /\ pc' = "written"
    /\ UNCHANGED <<seriesVars, capacity_n, corrVars, similarity, objects, series_m, series_n,
                   series_p, similarity_coeff, midpoint, t, peakVars, queryVars>>

\* a donor and a target on the heap, two objects or one and the same
InitPred ==
    /\ capacity \in SeriesPool(0, MaxPredLen, PredDonorValues)
    /\ time = GridTimes(Len(capacity))
    /\ \/ /\ capacity_n \in SeriesPool(0, MaxPredLen, PredTargetValues)
          /\ objects = <<[time |-> 1, capacity |-> 2], [time |-> 3, capacity |-> 4]>>
          /\ arrays = <<time, capacity, GridTimes(Len(capacity_n)), capacity_n>>
          /\ series_n = 2
       \/ /\ capacity_n = capacity
          /\ objects = <<[time |-> 1, capacity |-> 2]>>
          /\ arrays = <<time, capacity>>
          /\ series_n = 1
    /\ series_m = 1
    /\ series_p = 0
    /\ similarity_coeff = Num(0)
    /\ midpoint = 0
    /\ t = 0
    /\ Constructed
    /\ PairIdle
    /\ QueryIdle
    /\ PeaksIdle

PredCallAny == \E coeff \in PredCoeffs : PredCall(coeff)

WriteResultAny ==
    \E field \in {"time", "capacity"}, i \in 1..MaxPredLen : WriteResult(field, i)

NextPred == PredCallAny \/ PredStep \/ PredReturn \/ WriteResultAny

SpecPred == InitPred /\ [][NextPred]_vars


-----------------------------------------------------------------------------
(* Claims about predict_capacity_series                                     *)

PredDone == op = "predict_capacity_series" /\ pc = "done"

\* series_p.capacity
ResultCapacity == arrays[objects[series_p].capacity]

\* v limited to [-1e9, 1e9]
Clamped(v) == IF v > ClipBound THEN ClipBound ELSE IF v < -ClipBound THEN -ClipBound ELSE v

\* the target value and every donor value the loop has read up to index i - 1
\* are finite
FiniteUpTo(i) ==
    /\ capacity_n[midpoint].k = "fin"
    /\ \A j \in midpoint..i : capacity[j].k = "fin"

\* C12 (as stated): predict_capacity_series(donor, target, 0) returns a series
\* whose capacity at every index >= midpoint (midpoint >= 1) equals
\* target.capacity[midpoint-1] and at every index < midpoint equals target's.
C12_ZeroCoeffTail ==
    (PredDone /\ similarity_coeff = Num(0) /\ midpoint >= 1) =>
        \A i \in 1..Len(capacity_n) :
            ResultCapacity[i] = IF i > midpoint THEN capacity_n[midpoint] ELSE capacity_n[i]

\* C12 (amended): predict_capacity_series(donor, target, 0), when it returns
\* with midpoint >= 1, has at every index < midpoint the target's capacity and
\* at every index i >= midpoint target.capacity[midpoint-1] limited to
\* [-1e9, 1e9], or 0 when target.capacity[midpoint-1] or a donor value at an
\* index in midpoint-1..i is not finite.
C12_ZeroCoeffTailClamped ==
    (PredDone /\ similarity_coeff = Num(0) /\ midpoint >= 1) =>
        \A i \in 1..Len(capacity_n) :
            ResultCapacity[i] =
                IF i <= midpoint THEN capacity_n[i]
                ELSE IF FiniteUpTo(i) THEN Num(Clamped(capacity_n[midpoint].v))
                ELSE Num(0)

\* C12 witness: a prediction with coefficient 0 from finite donor values whose
\* tail is the last value before the midpoint, limited to 1e9.
C12_Witness ==
    /\ PredDone
    /\ similarity_coeff = Num(0)
    /\ midpoint >= 1
    /\ Len(capacity_n) > midpoint
    /\ FiniteUpTo(Len(capacity_n))
    /\ capacity_n[midpoint].v > ClipBound
    /\ ResultCapacity[Len(capacity_n)] = Num(ClipBound)


\* C13: predict_capacity_series leaves the time and the capacity of its donor
\* and of its target as they were, also when both are one object, and the
\* series it returns shares no array with either, so that a later write into
\* the result shows in neither.
C13_InputsUntouched ==
    /\ objects[series_m] = [time |-> 1, capacity |-> 2]
    /\ arrays[objects[series_m].time] = time
    /\ arrays[objects[series_m].capacity] = capacity
    /\ arrays[objects[series_n].time] = GridTimes(Len(capacity_n))
    /\ arrays[objects[series_n].capacity] = capacity_n
    /\ series_p # 0 =>
          {objects[series_p].time, objects[series_p].capacity}
              \cap {objects[series_m].time, objects[series_m].capacity,
                    objects[series_n].time, objects[series_n].capacity} = {}

\* C13 witness: donor and target are one object, the prediction has changed
\* the copy and the caller has written into the returned capacity.
C13_Witness ==
    /\ op = "predict_capacity_series"
    /\ pc = "written"
    /\ series_n = series_m
    /\ \E i \in 1..Len(capacity) :
          /\ arrays[objects[series_p].capacity][i] = Num(-1)
          /\ capacity[i] # Num(-1)
    /\ \E i \in 1..Len(capacity) : i > midpoint /\ capacity[i] # Num(0)

\* C14: every value predict_capacity_series stores at an index >= midpoint is
\* finite and lies in [-1e9, 1e9], whatever the donor values and the
\* coefficient.
C14_StoredFiniteInRange ==
    (op = "predict_capacity_series" /\ pc \in {"loop", "done", "raised"}) =>
        \A i \in (midpoint + 1)..Len(arrays[objects[series_p].capacity]) :
            LET v == arrays[objects[series_p].capacity][i]
            IN  v.k = "fin" /\ -ClipBound <= v.v /\ v.v <= ClipBound

\* C14 witness: a prediction that met an infinite donor value and stored a
\* value at the limit.
C14_Witness ==
    /\ PredDone
    /\ \E i \in (midpoint + 1)..Len(capacity_n), j \in (midpoint + 1)..Len(capacity_n) :
          /\ capacity[j].k = "inf"
          /\ ResultCapacity[j] = Num(0)
          /\ ResultCapacity[i] = Num(-ClipBound)


-----------------------------------------------------------------------------
(* AccelerationPeaks and find_acceleration_peaks                            *)
(*                                                                          *)
(* A numpy array of peaks is a record: its number of dimensions, its        *)
(* number of columns (0 for a one-dimensional array) and its rows, a row    *)
(* being a tuple for a two-dimensional array and a scalar otherwise.  A     *)
(* peak value is an integer count of hundredths of the acceleration unit,   *)
(* the percentile being a linear interpolation in steps of 1/100.           *)

MaxPeaks     == 3      \* most rows of a maxima array a caller builds
MaxMinima    == 2      \* most rows of a minima array a caller builds
MaxPeakLen   == 6      \* longest series peaks are searched in
MaxPeakSigma == 2      \* find_acceleration_peaks: sigma is drawn from 1..MaxPeakSigma

SecondsPerDay  == 86400    \* timedelta64[s] -> timedelta64[D]
YearDays100    == 36525    \* 365.25, in hundredths
MaxPercentile  == 95
MinPercentile  == 5

PeakTimes      == {0, 43200, 172800}   \* peak times of a caller-built array: 0, 0.5 and 2 days
PeakValues     == {100, 500}           \* peak values of a caller-built array
PeakCapacities == {0, 1, 3}            \* capacity values of a searched series
PeakIntervals  == {1, 2}               \* grid spacings of a searched series, in seconds

\* the N-by-2 array of the given rows
Pairs(rows) == [ndim |-> 2, cols |-> 2, rows |-> rows]

\* a[:, j]
Column(a, j) == [i \in 1..Len(a.rows) |-> a.rows[i][j + 1]]

\* an argmin that takes the last occurrence of the minimum
ArgMin_Last(a) ==
    (CHOOSE i \in 1..Len(a) :
        /\ \A j \in 1..Len(a) : a[j] >= a[i]
        /\ \A j \in (i + 1)..Len(a) : a[j] > a[i]) - 1

\* numpy argmin: the 0-based index of the first occurrence of the minimum
ArgMin(a) ==
    (CHOOSE i \in 1..Len(a) :
        /\ \A j \in 1..Len(a) : a[j] >= a[i]
        /\ \A j \in 1..(i - 1) : a[j] > a[i]) - 1

\* the test of max and min that takes any non-empty two-dimensional array
IsPairs_AnyWidth(a) == a.ndim = 2 /\ Len(a.rows) > 0

\* a.ndim == 2 and a.shape[1] == 2 and len(a) > 0
IsPairs(a) == a.ndim = 2 /\ a.cols = 2 /\ Len(a.rows) > 0

\* the sentinel (nan, nan)
NanPair == [kind |-> "nan", a |-> 0, b |-> 0]

\* AccelerationPeaks.max
PeaksMax(mx) ==
    IF IsPairs(mx)
    THEN LET m == ArgMax(Column(mx, 1))
         IN  [kind |-> "pair", a |-> mx.rows[m + 1][1], b |-> mx.rows[m + 1][2]]
    ELSE NanPair

\* AccelerationPeaks.min
PeaksMin(mn) ==
    IF IsPairs(mn)
    THEN LET m == ArgMin(Column(mn, 1))
         IN  [kind |-> "pair", a |-> mn.rows[m + 1][1], b |-> mn.rows[m + 1][2]]
    ELSE NanPair

\* diff(times).astype("timedelta64[D]").astype(int): the gaps in whole days,
\* rounded down
DayGaps(times) == [i \in 1..(Len(times) - 1) |-> (times[i + 1] - times[i]) \div SecondsPerDay]

\* the float 0.0 of frequency
ZeroFrequency == [kind |-> "freq", a |-> 0, b |-> 1]

\* a frequency that divides by the mean gap whatever its sign
Frequency_Unguarded(mx) ==
    IF Len(mx.rows) < 2 THEN Ok(ZeroFrequency)
    ELSE IF mx.ndim # 2 THEN Raise
    ELSE LET time_diffs == DayGaps(Column(mx, 0))
         IN  Ok([kind |-> "freq", a |-> YearDays100 * Len(time_diffs),
                                  b |-> 100 * SumSeq(time_diffs)])

\* AccelerationPeaks.frequency: 365.25 / mean(time_diffs) as the fraction a / b;
\* maxima[:, 0] raises IndexError on a one-dimensional array
Frequency(mx) ==
    IF Len(mx.rows) < 2 THEN Ok(ZeroFrequency)
    ELSE IF mx.ndim # 2 THEN Raise
    ELSE LET time_diffs == DayGaps(Column(mx, 0))
         IN  IF SumSeq(time_diffs) > 0
             THEN Ok([kind |-> "freq", a |-> YearDays100 * Len(time_diffs),
                                       b |-> 100 * SumSeq(time_diffs)])
             ELSE Ok(ZeroFrequency)

\* an AccelerationPeaks object exists
PeaksExist ==
    \/ op \in {"AccelerationPeaks", "max", "min", "frequency"}
    \/ op = "find_acceleration_peaks" /\ err = "none"

\* a read of peaks.max
ReadMax ==
    /\ PeaksExist
    /\ returned' = PeaksMax(maxima)
    /\ op' = "max"
    /\ err' = "none"
    /\ UNCHANGED <<time, capacity, args, pre, acceleration, calls, capacity_n, pc, corrVars,
                   similarity, predVars, maxima, minima, queryVars>>

\* a read of peaks.min
ReadMin ==
    /\ PeaksExist
    /\ returned' = PeaksMin(minima)
    /\ op' = "min"
    /\ err' = "none"
    /\ UNCHANGED <<time, capacity, args, pre, acceleration, calls, capacity_n, pc, corrVars,
                   similarity, predVars, maxima, minima, queryVars>>

\* a read of peaks.frequency
ReadFrequency ==
    /\ PeaksExist
    /\ LET r == Frequency(maxima)
       IN  IF r.ok
           THEN /\ returned' = r.val
                /\ err' = "none"
           ELSE /\ returned' = NoReturn
                /\ err' = "IndexError"
    /\ op' = "frequency"
    /\ UNCHANGED <<time, capacity, args, pre, acceleration, calls, capacity_n, pc, corrVars,
                   similarity, predVars, maxima, minima, queryVars>>


\* the comparators taken for each other
Compare_Flipped(comparator, a, b) == IF comparator = "greater" THEN a < b ELSE a > b

\* comparators that hold for equal values too
Compare_OrEqual(comparator, a, b) == IF comparator = "greater" THEN a >= b ELSE a <= b

\* numpy.greater / numpy.less
Compare(comparator, a, b) == IF comparator = "greater" THEN a > b ELSE a < b

\* the index numpy.take(mode="clip") reads for i in an array of n elements
ClipIndex(i, n) == Max(0, Min(n - 1, i))

\* the members of a set of integers in ascending order
Ascending(I) ==
    [k \in 1..Cardinality(I) |-> CHOOSE i \in I : Cardinality({j \in I : j < i}) = k - 1]

\* an extremum test that looks to the right only
ArgRelExtrema_OneSided(data, comparator, order) ==
    IF order < 1 THEN Raise
    ELSE LET n == Len(data)
         IN  Ok(Ascending({i \in 0..(n - 1) :
                    \A s \in 1..order :
                        Compare(comparator, data[i + 1], data[ClipIndex(i + s, n) + 1])}))

\* scipy.signal.argrelextrema(data, comparator, order=order)[0]: the 0-based
\* indices whose value compares true against the values up to order places
\* to either side, a place beyond an end being the end; ValueError for order < 1
ArgRelExtrema(data, comparator, order) ==
    IF order < 1 THEN Raise
    ELSE LET n == Len(data)
         IN  Ok(Ascending({i \in 0..(n - 1) :
                    \A s \in 1..order :
                        /\ Compare(comparator, data[i + 1], data[ClipIndex(i + s, n) + 1])
                        /\ Compare(comparator, data[i + 1], data[ClipIndex(i - s, n) + 1])}))

\* the k-th smallest element of a, k counted from 1
KthSmallest(a, k) ==
    CHOOSE v \in {a[i] : i \in 1..Len(a)} :
        /\ Cardinality({i \in 1..Len(a) : a[i] < v}) < k
        /\ k <= Cardinality({i \in 1..Len(a) : a[i] <= v})

\* a percentile that reads q from the other end
Percentile_Mirrored(a, q) ==
    LET pos == (Len(a) - 1) * (100 - q)
        lo  == pos \div 100
        rem == pos % 100
    IN  100 * KthSmallest(a, lo + 1)
          + (IF rem = 0 THEN 0 ELSE rem * (KthSmallest(a, lo + 2) - KthSmallest(a, lo + 1)))

\* numpy.percentile(a, q), in hundredths: linear interpolation between the
\* two order statistics around position (len(a) - 1) * q / 100
Percentile(a, q) ==
    LET pos == (Len(a) - 1) * q
        lo  == pos \div 100
        rem == pos % 100
    IN  100 * KthSmallest(a, lo + 1)
          + (IF rem = 0 THEN 0 ELSE rem * (KthSmallest(a, lo + 2) - KthSmallest(a, lo + 1)))

\* get_peaks(indices, percentile_target)
GetPeaks(indices, percentile_target, accel, tm, w) ==
    LET rows == [k \in 1..Len(indices) |->
                    LET n     == indices[k]
                        start == Max(0, n - w)
                        end   == Min(Len(accel), n + w)
                    IN  <<tm[n + 1], Percentile(PySlice(accel, start, end), percentile_target)>>]
    IN  IF Len(rows) = 0 THEN EmptyArray ELSE Pairs(rows)

\* find_acceleration_peaks(capacity_series, sigma): the exception raised, or
\* the peaks, with the locals computed on the way
FindAccelerationPeaks(tm, cap, sigma) ==
    LET none == [err |-> "IndexError", t_width |-> 0, acceleration |-> << >>,
                 maxima |-> EmptyArray, minima |-> EmptyArray]
    IN  IF Len(tm) < 2 THEN none
        ELSE LET t_interval == tm[2] - tm[1]
                 w          == 3 * TruncDiv(sigma, t_interval)
                 acc        == Acceleration(cap)
             IN  IF ~acc.ok
                 THEN [none EXCEPT !.err = "ValueError", !.t_width = w]
                 ELSE LET max_indices == ArgRelExtrema(acc.val, "greater", w)
                          min_indices == ArgRelExtrema(acc.val, "less", w)
                      IN  IF ~max_indices.ok
                          THEN [none EXCEPT !.err = "ValueError", !.t_width = w,
                                            !.acceleration = acc.val]
                          ELSE [err          |-> "none",
                                t_width      |-> w,
                                acceleration |-> acc.val,
                                maxima |-> GetPeaks(max_indices.val, MaxPercentile, acc.val, tm, w),
                                minima |-> GetPeaks(min_indices.val, MinPercentile, acc.val, tm, w)]

\* peaks = find_acceleration_peaks(series, sigma)
FindPeaks(sigma) ==
    /\ op = "init"
    /\ LET r == FindAccelerationPeaks(time, capacity, sigma)
       IN  /\ err' = r.err
           /\ t_width' = r.t_width
           /\ acceleration' = r.acceleration
           /\ maxima' = r.maxima
           /\ minima' = r.minima
    /\ op' = "find_acceleration_peaks"
    /\ args' = [NoArgs EXCEPT !.sigma = sigma]
    /\ pre' = Series
    /\ UNCHANGED <<time, capacity, calls, capacity_n, pc, accel_m, accel_n, m_peak, kernel,
                   max_shift, shift, max_corr, best_shift, similarity, predVars, returned, queryVars>>

\* arrays that are not N-by-2
MalformedArrays ==
    {EmptyArray,
     [ndim |-> 1, cols |-> 0, rows |-> <<500>>],
     [ndim |-> 1, cols |-> 0, rows |-> <<100, 500>>],
     [ndim |-> 2, cols |-> 3, rows |-> << <<0, 500, 100>> >>]}

\* the arrays of at most n (time, value) rows, and the malformed ones
PeakArrays(n, T) ==
    {Pairs(rows) : rows \in SeriesPool(0, n, T \X PeakValues)} \cup MalformedArrays

\* either a series in which peaks are to be searched, or an AccelerationPeaks
\* a caller has built from two arrays
InitPeaks ==
    /\ \/ /\ capacity \in SeriesPool(0, MaxPeakLen, PeakCapacities)
          /\ \E dt \in PeakIntervals : time = [i \in 1..Len(capacity) |-> (i - 1) * dt]
          /\ op = "init"
          /\ maxima = EmptyArray
          /\ minima = EmptyArray
       \/ /\ capacity = << >>
          /\ time = << >>
          /\ op = "AccelerationPeaks"
          /\ maxima \in PeakArrays(MaxPeaks, PeakTimes)
          /\ minima \in PeakArrays(MaxMinima, {0, 43200})
    /\ err = "none"
    /\ args = NoArgs
    /\ pre = Series
    /\ acceleration = << >>
    /\ calls = 0
    /\ returned = NoReturn
    /\ capacity_n = << >>
    /\ PairIdle
    /\ QueryIdle
    /\ PredIdle

FindPeaksAny == \E sigma \in 1..MaxPeakSigma : FindPeaks(sigma)

NextPeaks == FindPeaksAny \/ ReadMax \/ ReadMin \/ ReadFrequency

SpecPeaks == InitPeaks /\ [][NextPeaks]_vars


-----------------------------------------------------------------------------
(* Claims about AccelerationPeaks and find_acceleration_peaks               *)

\* a is a non-empty N-by-2 array
WellFormed(a) == a.ndim = 2 /\ a.cols = 2 /\ Len(a.rows) >= 1

\* the sum of the gaps between consecutive maxima, each in whole days
WholeDayGapSum == SumSeq(DayGaps([i \in 1..Len(maxima.rows) |-> maxima.rows[i][1]]))

\* C15: frequency returns exactly 0.0 whenever maxima holds fewer than 2 peaks
\* (the empty array of a detection that found none included) or the mean gap
\* in whole days between consecutive maxima is not positive.
C15_ZeroFrequency ==
    (/\ op = "frequency"
     /\ \/ Len(maxima.rows) < 2
        \/ maxima.ndim = 2 /\ WholeDayGapSum <= 0) =>
        (err = "none" /\ returned = ZeroFrequency)

\* C15 witness: frequency read as 0.0 from three maxima whose gaps, one of
\* them negative, have no positive mean.
C15_Witness ==
    /\ op = "frequency"
    /\ WellFormed(maxima)
    /\ Len(maxima.rows) = 3
    /\ maxima.rows[2][1] < maxima.rows[1][1]
    /\ WholeDayGapSum <= 0
    /\ returned = ZeroFrequency

\* row m of a holds the extreme value (the greatest for sign = 1, the least
\* for sign = -1) and no row before it does
FirstExtreme(a, m, sign) ==
    /\ \A j \in 1..Len(a.rows) : sign * a.rows[j][2] <= sign * a.rows[m][2]
    /\ \A j \in 1..(m - 1) : sign * a.rows[j][2] < sign * a.rows[m][2]

\* C16: max returns the (time, value) pair of maxima with the greatest value
\* and min the pair of minima with the least value; of several pairs with
\* the extreme value the one of lowest index is returned.
C16_ExtremePair ==
    /\ (op = "max" /\ WellFormed(maxima)) =>
          \E m \in 1..Len(maxima.rows) :
              /\ FirstExtreme(maxima, m, 1)
              /\ returned = [kind |-> "pair", a |-> maxima.rows[m][1], b |-> maxima.rows[m][2]]
    /\ (op = "min" /\ WellFormed(minima)) =>
          \E m \in 1..Len(minima.rows) :
              /\ FirstExtreme(minima, m, -1)
              /\ returned = [kind |-> "pair", a |-> minima.rows[m][1], b |-> minima.rows[m][2]]

\* C16 witness: min read from minima whose least value stands in two rows of
\* different times; the first of them is returned.
C16_Witness ==
    /\ op = "min"
    /\ WellFormed(minima)
    /\ Len(minima.rows) = 2
    /\ minima.rows[1][2] = minima.rows[2][2]
    /\ minima.rows[1][1] # minima.rows[2][1]
    /\ returned.kind = "pair"
    /\ returned.a = minima.rows[1][1]

\* C17: max (min) returns the sentinel (NaN, NaN) without raising when maxima
\* (minima) is empty or not an N-by-2 array, and a read of max, min or
\* frequency never modifies maxima or minima.
C17_SentinelNoMutation ==
    /\ [][op' \in {"max", "min", "frequency"} => (maxima' = maxima /\ minima' = minima)]_vars
    /\ []((op = "max" /\ ~WellFormed(maxima)) => (returned = NanPair /\ err = "none"))
    /\ []((op = "min" /\ ~WellFormed(minima)) => (returned = NanPair /\ err = "none"))

\* C17 witness: max read as the sentinel from a non-empty array of three columns.
C17_Witness ==
    /\ op = "max"
    /\ maxima.ndim = 2
    /\ maxima.cols = 3
    /\ Len(maxima.rows) >= 1
    /\ returned = NanPair

\* the 0-based index of the sample a peak row was taken at
PeakIndex(row) == CHOOSE i \in 0..(Len(time) - 1) : time[i + 1] = row[1]

\* acceleration[max(0, i - w) : min(n, i + w)]
Window(i) ==
    SubSeq(acceleration, Max(0, i - t_width) + 1, Min(Len(acceleration), i + t_width))

\* twice the median of a
Median2(a) == KthSmallest(a, (Len(a) + 1) \div 2) + KthSmallest(a, (Len(a) + 2) \div 2)

PeaksFound == op = "find_acceleration_peaks" /\ err = "none"

\* C18: for every peak find_acceleration_peaks returns, the value of a
\* maximum is at least, and the value of a minimum at most, the median of the
\* acceleration in its window [max(0, i - w), min(n, i + w)).
C18_PeakBeyondMedian ==
    PeaksFound =>
        /\ \A k \in 1..Len(maxima.rows) :
              maxima.rows[k][2] >= 50 * Median2(Window(PeakIndex(maxima.rows[k])))
        /\ \A k \in 1..Len(minima.rows) :
              minima.rows[k][2] <= 50 * Median2(Window(PeakIndex(minima.rows[k])))

\* C18 witness: a detection that found a maximum above and a minimum below
\* the median of its window.
C18_Witness ==
    /\ PeaksFound
    /\ \E k \in 1..Len(maxima.rows) :
          maxima.rows[k][2] > 50 * Median2(Window(PeakIndex(maxima.rows[k])))
    /\ \E k \in 1..Len(minima.rows) :
          minima.rows[k][2] < 50 * Median2(Window(PeakIndex(minima.rows[k])))

\* C19: find_acceleration_peaks with a sigma below the grid spacing (a width
\* w of 0) or with a series of fewer than 2 samples returns empty maxima and
\* minima and does not raise.
C19_DegenerateEmptyPeaks ==
    (/\ op = "find_acceleration_peaks"
     /\ \/ Len(time) < 2
        \/ 3 * TruncDiv(args.sigma, time[2] - time[1]) = 0) =>
        (err = "none" /\ Len(maxima.rows) = 0 /\ Len(minima.rows) = 0)


-----------------------------------------------------------------------------
(* Claims about reads of acceleration between smooth calls                  *)

\* the second difference of c, for len(c) >= 3, with its first and its last
\* value repeated outward
PaddedSecondDifference(c) ==
    [i \in 1..Len(c) |->
        LET j == Max(2, Min(Len(c) - 1, i))
        IN  c[j + 1] - 2 * c[j] + c[j - 1]]

\* C20: a read of acceleration leaves time and capacity as they were, and
\* whatever smooth calls and reads came before, the value read is the padded
\* second difference of the capacity the series holds at the read: nothing
\* computed before a smooth is returned after it.
C20_AccelerationOfCurrent ==
    op = "acceleration" =>
        /\ time = pre.time
        /\ capacity = pre.capacity
        /\ err = "none" =>
              (Len(capacity) >= 3 /\ acceleration = PaddedSecondDifference(capacity))

\* C20 witness: a read after a smooth that changed the capacity, returning a
\* non-zero acceleration.
C20_Witness ==
    /\ op = "acceleration"
    /\ err = "none"
    /\ calls >= 1
    /\ \E i \in 1..Len(capacity) : capacity[i] \notin InitValues
    /\ Len(capacity) >= 3
    /\ acceleration = PaddedSecondDifference(capacity)
    /\ \E i \in 1..Len(acceleration) : acceleration[i] # 0


-----------------------------------------------------------------------------
(* query_capacity_series                                                    *)
(*                                                                          *)
(* A frame is a sequence of rows.  Where pandas orders equal keys (the      *)
(* group sums, the approval dates) the order the rows or groups already     *)
(* have is kept.                                                            *)

MaxRows      == 3      \* most rows of a frame
MaxGroupsArg == 2      \* n_groups is None or drawn from 0..MaxGroupsArg

Row(sector, fuels, zip, cap, date) ==
    [customer_sector |-> sector, fuel_types |-> fuels, facility_zipcode |-> zip,
     nameplate_capacity |-> cap, approval_date |-> date]

\* the rows a frame is made of
RowPool ==
    {Row("Residential", {"Solar"}, 1, 2, 1),
     Row("Residential", {"Solar"}, 2, 1, 1),
     Row("Residential", {"Solar", "Wind"}, 2, 3, 2),
     Row("Commercial", {"Solar"}, 1, 5, 3),
     Row("Residential", {"Solar"}, 3, 2, 3)}

QuerySector   == "Residential"                         \* the default of sector
QueryFuelType == {"Solar"}                             \* fuel_type=["Solar"]
SelectFroms   == {"highest", "Middle", "LOWEST", "top", ""}

\* str.lower(), on the strings of SelectFroms
Lower(s) ==
    CASE s = "Middle" -> "middle"
      [] s = "LOWEST" -> "lowest"
      [] OTHER -> s

\* n_groups=n
SomeGroups(n) == [some |-> TRUE, n |-> n]

\* query_fuel_types(frame, fuel_type, exclusive)
QueryFuelTypes(frame, fuel_filter, exclusive) ==
    LET condition(r) == IF exclusive
                        THEN r.fuel_types = fuel_filter
                        ELSE r.fuel_types \cap fuel_filter # {}
    IN  SelectSeq(frame, condition)

\* frame.groupby("facility_zipcode").nameplate_capacity.sum().sort_values():
\* one entry per group, in ascending order of the sum
CapacitySumByGroup(frame) ==
    LET rows   == 1..Len(frame)
        groups == {frame[i].facility_zipcode : i \in rows}
        total(g) == SumSeq([i \in rows |-> IF frame[i].facility_zipcode = g
                                           THEN frame[i].nameplate_capacity ELSE 0])
        before(g, h) == total(g) < total(h) \/ (total(g) = total(h) /\ g < h)
    IN  [k \in 1..Cardinality(groups) |->
            LET g == CHOOSE g \in groups : Cardinality({h \in groups : before(h, g)}) = k - 1
            IN  [group |-> g, sum |-> total(g)]]

\* series.nlargest(n).index, as a set: of equal sums the one first in the series is taken
NLargest(series, n) ==
    LET before(i, j) == series[i].sum > series[j].sum \/ (series[i].sum = series[j].sum /\ i < j)
    IN  {series[i].group : i \in {i \in 1..Len(series) :
                                     Cardinality({j \in 1..Len(series) : before(j, i)}) < n}}

\* series.nsmallest(n).index, as a set
NSmallest(series, n) == {series[i].group : i \in 1..Min(n, Len(series))}

\* series.iloc[mid_start : mid_start + n].index, as a set
Middle(series, n) ==
    LET mid_start == (Len(series) - n) \div 2
        part      == PySlice(series, mid_start, mid_start + n)
    IN  {part[i].group : i \in 1..Len(part)}

\* frame.sort_values(by="approval_date")
SortByDate(frame) ==
    LET pos(i) == Cardinality({j \in 1..Len(frame) :
                      \/ frame[j].approval_date < frame[i].approval_date
                      \/ frame[j].approval_date = frame[i].approval_date /\ j < i}) + 1
    IN  [k \in 1..Len(frame) |-> frame[CHOOSE i \in 1..Len(frame) : pos(i) = k]]

\* frame[~frame.duplicated(subset="approval_date", keep="first")], for a frame
\* in order of approval_date
FirstOfEachDate(frame) ==
    LET keep == {i \in 1..Len(frame) :
                    \A j \in 1..(i - 1) : frame[j].approval_date # frame[i].approval_date}
    IN  [k \in 1..Cardinality(keep) |->
            frame[CHOOSE i \in keep : Cardinality({j \in keep : j < i}) = k - 1]]

\* query_capacity_series(es_frame, fuel_type, exclusive, sector, "facility_zipcode",
\* n_groups, select_from): the frame returned, or Raise for the ValueError
QueryResult(frame, fuel_type, exclusive, sector, n_groups, select_from) ==
    LET in_sector(r) == r.customer_sector = sector
        es_frame_sel == QueryFuelTypes(SelectSeq(frame, in_sector), fuel_type, exclusive)
        capacity_sum_by_group == CapacitySumByGroup(es_frame_sel)
        finish(selected) == Ok(FirstOfEachDate(SortByDate(selected)))
        choice == Lower(select_from)
    IN  IF n_groups.some
        THEN IF choice \notin {"highest", "lowest", "middle"}
             THEN Raise
             ELSE LET selected_groups ==
                          IF choice = "highest" THEN NLargest(capacity_sum_by_group, n_groups.n)
                          ELSE IF choice = "lowest" THEN NSmallest(capacity_sum_by_group, n_groups.n)
                          ELSE Middle(capacity_sum_by_group, n_groups.n)
                      isin(r) == r.facility_zipcode \in selected_groups
                  IN  finish(SelectSeq(es_frame_sel, isin))
        ELSE finish(es_frame_sel)

\* a call of query_capacity_series on the frame
QueryCapacitySeries(exclusive, n_groups, select_from) ==
    /\ op = "init"
    /\ LET r == QueryResult(es_frame, QueryFuelType, exclusive, QuerySector, n_groups, select_from)
       IN  /\ selected_frame' = r.val
           /\ err' = IF r.ok THEN "none" ELSE "ValueError"
    /\ op' = "query_capacity_series"
    /\ query_args' = [exclusive |-> exclusive, n_groups |-> n_groups, select_from |-> select_from]
    /\ UNCHANGED <<time, capacity, args, pre, acceleration, calls, capacity_n, pc, corrVars,
                   similarity, predVars, peakVars, es_frame>>

\* a frame of energy storage rows, not queried yet
InitQuery ==
    /\ es_frame \in SeriesPool(0, MaxRows, RowPool)
    /\ query_args = [exclusive |-> TRUE, n_groups |-> NoGroups, select_from |-> "highest"]
    /\ selected_frame = << >>
    /\ time = << >>
    /\ capacity = << >>
    /\ capacity_n = << >>
    /\ Constructed
    /\ PairIdle
    /\ PredIdle
    /\ PeaksIdle

QueryAny ==
    \E exclusive \in BOOLEAN, select_from \in SelectFroms,
       n_groups \in {NoGroups} \cup {SomeGroups(n) : n \in 0..MaxGroupsArg} :
        QueryCapacitySeries(exclusive, n_groups, select_from)

NextQuery == QueryAny

SpecQuery == InitQuery /\ [][NextQuery]_vars

-----------------------------------------------------------------------------
(* Claims about query_capacity_series                                       *)

\* C21: query_capacity_series with a select_from that is none of "highest",
\* "middle", "lowest" in any casing fails with ValueError, whatever n_groups
\* is, None included.
C21_InvalidSelectFromRaises ==
    (op = "query_capacity_series" /\ query_args.select_from \in {"top", ""}) =>
        err = "ValueError"


-----------------------------------------------------------------------------
(* Claims about the values of acceleration                                  *)

\* C22: for a capacity c of n >= 3 samples, acceleration[i] is
\* c[i+1] - 2*c[i] + c[i-1] for every 1 <= i <= n-2, acceleration[0] is
\* acceleration[1] and acceleration[n-1] is acceleration[n-2].
C22_SecondDifference ==
    (op = "acceleration" /\ Len(capacity) >= 3) =>
        LET n == Len(capacity)
        IN  /\ err = "none"
            /\ Len(acceleration) = n
            /\ \A i \in 1..(n - 2) :
                  acceleration[i + 1] = capacity[i + 2] - 2 * capacity[i + 1] + capacity[i]
            /\ acceleration[1] = acceleration[2]
            /\ acceleration[n] = acceleration[n - 1]

\* C22 witness: the acceleration of four samples, different at its two ends.
C22_Witness ==
    /\ op = "acceleration"
    /\ err = "none"
    /\ Len(capacity) = 4
    /\ acceleration[2] # acceleration[3]
    /\ acceleration[1] # 0
    /\ acceleration[4] # 0


-----------------------------------------------------------------------------
(* Claims about the kernel radius of smooth                                 *)

\* Python's round(x / y) for x >= 0 and y > 0: to the nearest integer, a half
\* to the even one
RoundDiv(x, y) ==
    LET q == x \div y
        twice == 2 * (x % y)
    IN  IF twice < y THEN q
        ELSE IF twice > y THEN q + 1
        ELSE IF q % 2 = 0 THEN q ELSE q + 1

\* C23: smooth trims round(3*sigma/delta) samples from each end of the grid,
\* also when 3*sigma/delta is not an integer: of the N grid times
\* N - 2*round(3*sigma/delta) are left, or none when that is not positive.
C23_RadiusRounded ==
    (SmoothReturned /\ RoundDiv(3 * args.sigma, args.delta) >= 1) =>
        Len(time) = Max(ArgN - 2 * RoundDiv(3 * args.sigma, args.delta), 0)


-----------------------------------------------------------------------------
(* Claims about the peaks find_acceleration_peaks reports                   *)

\* the indices of [i - w, i + w] inside the array, i left out
Neighbours(i) ==
    (Max(0, i - t_width)..Min(Len(acceleration) - 1, i + t_width)) \ {i}

\* the indices whose acceleration is strictly beyond that of all their
\* neighbours: above for sign = 1, below for sign = -1
StrictExtrema(sign) ==
    {i \in 0..(Len(acceleration) - 1) :
        \A j \in Neighbours(i) : sign * acceleration[i + 1] > sign * acceleration[j + 1]}

\* the times of the rows of a peak array
PeakTimesOf(a) == [k \in 1..Len(a.rows) |-> a.rows[k][1]]

C28_NoPeakAtEdges ==
    (PeaksFound /\ t_width >= 1) =>
        LET n == Len(time)
            reported == {PeakIndex(maxima.rows[k]) : k \in 1..Len(maxima.rows)}
                          \cup {PeakIndex(minima.rows[k]) : k \in 1..Len(minima.rows)}
        IN  reported \cap {0, 1, n - 2, n - 1} = {}

\* C28 witness: peaks are reported, while the acceleration at index 1 and at
\* index n-2 is above all that lies further inside.
C28_Witness ==
    /\ PeaksFound
    /\ t_width >= 1
    /\ Len(maxima.rows) + Len(minima.rows) >= 1
    /\ \A i \in 3..(Len(acceleration) - 2) :
          acceleration[2] > acceleration[i] \/ acceleration[Len(acceleration) - 1] > acceleration[i]

\* C29: the value reported for a maximum at index i is at most
\* acceleration[i], the value reported for a minimum at least acceleration[i].
C29_RefinedWithinPeak ==
    PeaksFound =>
        /\ \A k \in 1..Len(maxima.rows) :
              maxima.rows[k][2] <= 100 * acceleration[PeakIndex(maxima.rows[k]) + 1]
        /\ \A k \in 1..Len(minima.rows) :
              minima.rows[k][2] >= 100 * acceleration[PeakIndex(minima.rows[k]) + 1]

\* C29 witness: a maximum reported below, and a minimum reported above, the
\* acceleration at its index.
C29_Witness ==
    /\ PeaksFound
    /\ \E k \in 1..Len(maxima.rows) :
          maxima.rows[k][2] < 100 * acceleration[PeakIndex(maxima.rows[k]) + 1]
    /\ \E k \in 1..Len(minima.rows) :
          minima.rows[k][2] > 100 * acceleration[PeakIndex(minima.rows[k]) + 1]


-----------------------------------------------------------------------------
(* Claims about the score compute_pair_correlation returns                  *)

\* the shifts that pass the bounds test
Valid == {s \in Shifts : InRange(s)}

\* the returned score is the greatest window product over the valid shifts,
\* and the returned shift is a valid one that has it
BestOverValid ==
    /\ max_corr.fin
    /\ best_shift \in Valid
    /\ max_corr.v = WindowDot(best_shift)
    /\ \A u \in Valid : WindowDot(u) <= max_corr.v

\* C25 (as stated): when some shift in [-max_shift, max_shift] is valid, the
\* score returned is the maximum over the valid shifts s of the inner product
\* of reference.acceleration[p-w : p+w] with
\* candidate.acceleration[p+s-w : p+s+w], and the shift returned is a valid
\* shift with that score.
C25_MaxOverValid == (CorrDone /\ Valid # {}) => BestOverValid

\* C25 (amended): the same, when moreover the reference window is whole:
\* p - w >= 0 and p + w <= len(reference.acceleration).
C25_MaxOverValidWholeKernel == (CorrDone /\ Valid # {} /\ KernelWhole) => BestOverValid

\* C25 witness: a call with a whole reference window and valid shifts of
\* different scores, returning the greater one.
C25_Witness ==
    /\ CorrDone
    /\ KernelWhole
    /\ t_width >= 1
    /\ \E u \in Valid : max_corr.fin /\ WindowDot(u) < max_corr.v
    /\ best_shift \in Valid
    /\ max_corr.v = WindowDot(best_shift)

\* the reference peak lies within w samples of an end of its acceleration
KernelClipped == m_peak - t_width < 0 \/ m_peak + t_width > Len(accel_m)

\* C26: when p - w < 0 or p + w > len(reference.acceleration) the kernel has
\* fewer than 2w samples, no segment has its length, and (-infinity, 0) is
\* returned, whatever the candidate and max_shift.
C26_ClippedKernelUnscored ==
    (CorrDone /\ KernelClipped) =>
        /\ Len(kernel) < 2 * t_width
        /\ max_corr = NegInf
        /\ best_shift = 0

\* C26 witness: a call with a clipped kernel and a valid non-zero shift,
\* returning (-infinity, 0).
C26_Witness ==
    /\ CorrDone
    /\ KernelClipped
    /\ \E s \in Valid : s # 0
    /\ max_corr = NegInf
    /\ best_shift = 0


-----------------------------------------------------------------------------
(* Claims about a smooth call that raises                                   *)

\* C27: when a smooth call raises, time and capacity are what they were
\* before the call; no state with only one of them replaced is left.
C27_RaiseLeavesSeries ==
    (op = "smooth" /\ err # "none") => (time = pre.time /\ capacity = pre.capacity)

\* C27 witness: a smooth call on a series with samples that raised on an
\* empty grid and left the samples in place.
C27_Witness ==
    /\ op = "smooth"
    /\ err = "ValueError"
    /\ args.end <= args.start
    /\ Len(time) >= 1
    /\ time = pre.time
    /\ capacity = pre.capacity


-----------------------------------------------------------------------------
(* Claims about a donor shorter than the target                             *)

\* the donor has fewer samples than a target of at least two
DonorShort ==
    /\ op = "predict_capacity_series"
    /\ Len(capacity_n) >= 2
    /\ Len(capacity) < Len(capacity_n)

\* C30: with a donor of fewer samples than a target of length >= 2,
\* predict_capacity_series does not return a partial prediction: the call
\* ends raising IndexError, and the target is as it was passed in.
C30_ShortDonorRaises ==
    DonorShort =>
        /\ pc \in {"loop", "raised"}
        /\ pc = "raised" => err = "IndexError"
        /\ arrays[objects[series_n].time] = GridTimes(Len(capacity_n))
        /\ arrays[objects[series_n].capacity] = capacity_n

\* C30 witness: a call that stored a predicted value, then ran past the end of
\* the donor and raised.
C30_Witness ==
    /\ DonorShort
    /\ pc = "raised"
    /\ err = "IndexError"
    /\ t > midpoint - 1
    /\ arrays[objects[series_n].capacity] = capacity_n
    /\ arrays[objects[series_p].capacity] # capacity_n

=============================================================================
